---- MODULE Spec2Model ----
(***************************************************************************)
(* A model of the SILO weather client (src/silo_api.py): get_silo_data     *)
(* (validation, request, parse, normalize), parse_silo_response, the       *)
(* variable normalizer extract_variables, the statistics calculate_tav and *)
(* calculate_amp, shift_evaporation, and the rows written by export_to_met *)
(* and export_to_csv.                                                      *)
(*                                                                         *)
(* Numbers.  Latitudes, longitudes and climate values are fixed-point      *)
(* numbers in tenths (the upstream service reports one decimal place):     *)
(* -99.9 is -999, -44.0 is -440.  A cell of a table is <<>> (NaN) or <<v>>.*)
(* Dates are day numbers, day 0 being 2000-01-01.                          *)
(* Column names are sequences of characters, so that lower() and the       *)
(* substring test "a in b" are computed; rendered text is a string.        *)
(***************************************************************************)
EXTENDS Integers, Sequences, FiniteSets, TLC

VARIABLES
    op,            \* the method of SILOWeatherAPI this run calls
    pc,            \* its position: "call", a position inside it, "returned", "raised"
    lat,           \* argument lat, in tenths of a degree
    lon,           \* argument lon, in tenths of a degree
    start_year,    \* argument start_year
    end_year,      \* argument end_year
    current_year,  \* datetime.now().year
    format,        \* argument format
    df,            \* argument df: a DataFrame
    found,         \* extract_variables: found_col of each output_col so far (0: none)
    ret,           \* the value returned: True or a DataFrame
    err,           \* the exception raised, NoError when none
    met_file,      \* the data rows of the .met file written, in order
    response,      \* what requests.get answers: the outcome and the text of the body
    data_start_idx, \* parse_silo_response: the local data_start_idx when it ended
    trace,         \* the steps of get_silo_data, or the calls of main(), done so far
    csv_file,      \* the lines of the .csv file written, each a sequence of fields
    given          \* the series main() holds, as get_silo_data returned it

vars == <<op, pc, lat, lon, start_year, end_year, current_year, format, df,
          found, ret, err, met_file, response, data_start_idx, trace, csv_file, given>>

(***************************************************************************)
(* Bounds of the model.                                                    *)
(***************************************************************************)
CoordSlack == 1         \* coordinates this many tenths either side of each bound
YearSlack == 1          \* years this far either side of 1889 and of the current year
FirstCurrentYear == 2025 \* datetime.now().year is this or the next
MaxRows == 2            \* rows of a raw table
MaxDay == 3             \* the dates of a raw table are days 0..MaxDay
MaxLen == 3             \* days of a normalized series given to the emitters
MaxLines == 4           \* lines of a response text given to parse_silo_response
MaxCalls == 2           \* calls main() makes on the series it holds
EpochYear == 2000       \* day 0 is 1 January of this year

(***************************************************************************)
(* Exceptions.                                                             *)
(***************************************************************************)
NoError == [class |-> "none"]
NoFrame == [index |-> <<>>, columns |-> <<>>, data |-> <<>>]
NoResponse == [outcome |-> "none", text |-> <<>>]

\* class X(SILOAPIError): the exceptions of the module's own hierarchy.
SILOAPIErrorClasses ==
    {"SILOAPIError", "InvalidCoordinatesError", "AuthenticationError",
     "MissingVariableError"}

(***************************************************************************)
(* validate_coordinates and the validation of get_silo_data.               *)
(***************************************************************************)
LAT_MIN == -440
LAT_MAX == -100
LON_MIN == 1120
LON_MAX == 1540
MIN_YEAR == 1889

\* A strict comparison at the southern bound.
LatInBoundsStrict(la) == LAT_MIN < la /\ la <= LAT_MAX

LatInBounds(la) == LAT_MIN <= la /\ la <= LAT_MAX
LonInBounds(lo) == LON_MIN <= lo /\ lo <= LON_MAX

\* The exception validate_coordinates raises for (la, lo), NoError when it returns True.
ValidateCoordinatesError(la, lo) ==
    IF ~LatInBounds(la)
    THEN [class |-> "InvalidCoordinatesError", what |-> "Latitude"]
    ELSE IF ~LonInBounds(lo)
    THEN [class |-> "InvalidCoordinatesError", what |-> "Longitude"]
    ELSE NoError

\* The date-range checks without the test of line 151.
DateRangeErrorUnordered(sy, ey, cy) ==
    IF sy < MIN_YEAR \/ ey > cy
    THEN [class |-> "ValueError", what |-> "Date range must be between"]
    ELSE NoError

\* The exception the date-range checks of get_silo_data raise, NoError when none.
DateRangeError(sy, ey, cy) ==
    IF sy < MIN_YEAR \/ ey > cy
    THEN [class |-> "ValueError", what |-> "Date range must be between"]
    ELSE IF sy > ey
    THEN [class |-> "ValueError", what |-> "start_year must be <= end_year"]
    ELSE NoError

\* Coordinates around each bound, and the middle of the domain.
Lats == (LAT_MIN - CoordSlack .. LAT_MIN + CoordSlack)
        \cup (LAT_MAX - CoordSlack .. LAT_MAX + CoordSlack)
        \cup {(LAT_MIN + LAT_MAX) \div 2}
Lons == (LON_MIN - CoordSlack .. LON_MIN + CoordSlack)
        \cup (LON_MAX - CoordSlack .. LON_MAX + CoordSlack)
        \cup {(LON_MIN + LON_MAX) \div 2}
CurrentYears == FirstCurrentYear .. FirstCurrentYear + 1
Years == (MIN_YEAR - YearSlack .. MIN_YEAR + YearSlack)
         \cup (FirstCurrentYear - YearSlack .. FirstCurrentYear + 1 + YearSlack)

InitValidate ==
    /\ op \in {"validate_coordinates", "get_silo_data"}
    /\ pc = "call"
    /\ lat \in Lats
    /\ lon \in Lons
    /\ start_year \in Years
    /\ end_year \in Years
    /\ current_year \in CurrentYears
    /\ format = "fao56"
    /\ df = NoFrame
    /\ found = <<>>
    /\ ret = FALSE
    /\ err = NoError
    /\ met_file = <<>>
    /\ response = NoResponse
    /\ data_start_idx = 0
    /\ trace = <<>>
    /\ csv_file = <<>>
    /\ given = NoFrame

\* api.validate_coordinates(lat, lon), called on its own.
ValidateCoordinates ==
    /\ op = "validate_coordinates"
    /\ pc = "call"
    /\ err' = ValidateCoordinatesError(lat, lon)
    /\ ret' = (err' = NoError)
    /\ pc' = IF err' = NoError THEN "returned" ELSE "raised"
    /\ UNCHANGED <<op, lat, lon, start_year, end_year, current_year, format, df, found,
                   met_file, response, data_start_idx, trace, csv_file, given>>

\* get_silo_data, line 145: self.validate_coordinates(lat, lon).
GetSiloDataValidateCoordinates ==
    /\ op = "get_silo_data"
    /\ pc = "call"
    /\ err' = ValidateCoordinatesError(lat, lon)
    /\ pc' = IF err' = NoError THEN "validate_range" ELSE "raised"
    /\ trace' = Append(trace, "validate_coordinates")
    /\ UNCHANGED <<op, lat, lon, start_year, end_year, current_year, format, df, found,
                   ret, met_file, response, data_start_idx, csv_file, given>>

\* get_silo_data, lines 148-152: the date-range checks; then the request is built.
GetSiloDataValidateRange ==
    /\ op = "get_silo_data"
    /\ pc = "validate_range"
    /\ err' = DateRangeError(start_year, end_year, current_year)
    /\ pc' = IF err' = NoError THEN "fetch" ELSE "raised"
    /\ trace' = Append(trace, "validate_range")
    /\ UNCHANGED <<op, lat, lon, start_year, end_year, current_year, format, df, found,
                   ret, met_file, response, data_start_idx, csv_file, given>>

NextValidate ==
    \/ ValidateCoordinates
    \/ GetSiloDataValidateCoordinates
    \/ GetSiloDataValidateRange

SpecValidate == InitValidate /\ [][NextValidate]_vars

(***************************************************************************)
(* C1: validate_coordinates(lat, lon) returns True for every (lat, lon)    *)
(* with -44.0 <= lat <= -10.0 and 112.0 <= lon <= 154.0, endpoints         *)
(* included, and raises InvalidCoordinatesError for every other (lat, lon).*)
(***************************************************************************)
C1_ValidateCoordinates ==
    (op = "validate_coordinates" /\ pc # "call") =>
        IF -440 <= lat /\ lat <= -100 /\ 1120 <= lon /\ lon <= 1540
        THEN pc = "returned" /\ ret = TRUE /\ err = NoError
        ELSE pc = "raised" /\ ret = FALSE /\ err.class = "InvalidCoordinatesError"

\* validate_coordinates has returned True at the corner (-44.0, 154.0).
C1_Witness ==
    /\ op = "validate_coordinates"
    /\ pc = "returned"
    /\ ret = TRUE
    /\ lat = -440
    /\ lon = 1540

\* The year range is one the spec's validator rejects.
YearRangeInvalid == start_year < 1889 \/ end_year > current_year \/ start_year > end_year

\* get_silo_data is past its validation, with in-bounds coordinates.
PastRangeValidation ==
    /\ op = "get_silo_data"
    /\ pc \in {"fetch", "raised"}
    /\ LatInBounds(lat)
    /\ LonInBounds(lon)

(***************************************************************************)
(* C2: for in-bounds coordinates, the validation of the year range fails   *)
(* with the typed error InvalidDateRange (an exception of the client's own *)
(* hierarchy) whenever start_year < 1889, or end_year exceeds the current  *)
(* year, or start_year > end_year, and succeeds for every other            *)
(* (start_year, end_year).                                                 *)
(***************************************************************************)
C2_TypedInvalidDateRange ==
    PastRangeValidation =>
        IF YearRangeInvalid
        THEN pc = "raised"
             /\ err.class \in SILOAPIErrorClasses \cup {"InvalidDateRangeError"}
        ELSE pc = "fetch" /\ err = NoError

\* What the code does there: the same years are rejected, with a bare ValueError.
C2_RejectsWithValueError ==
    PastRangeValidation =>
        IF YearRangeInvalid
        THEN pc = "raised" /\ err.class = "ValueError"
        ELSE pc = "fetch" /\ err = NoError

(***************************************************************************)
(* Column names: the keys and values of the two mappings, as characters.   *)
(***************************************************************************)
S_Date == <<"D", "a", "t", "e">>
S_Rain == <<"R", "a", "i", "n">>
S_Rainfall == <<"R", "a", "i", "n", "f", "a", "l", "l">>
S_TMax == <<"T", ".", "M", "a", "x">>
S_TMin == <<"T", ".", "M", "i", "n">>
S_VP == <<"V", "P">>
S_Radn == <<"R", "a", "d", "n">>
S_Radiation == <<"R", "a", "d", "i", "a", "t", "i", "o", "n">>
S_FAO56 == <<"F", "A", "O", "5", "6">>
S_Evap == <<"E", "v", "a", "p">>
S_Evaporation == <<"E", "v", "a", "p", "o", "r", "a", "t", "i", "o", "n">>
S_Tmax == <<"T", "m", "a", "x">>
S_Tmin == <<"T", "m", "i", "n">>
S_Code == <<"C", "o", "d", "e">>
daily_rain == <<"d", "a", "i", "l", "y", "_", "r", "a", "i", "n">>
max_temp == <<"m", "a", "x", "_", "t", "e", "m", "p">>
min_temp == <<"m", "i", "n", "_", "t", "e", "m", "p">>
vp == <<"v", "p">>
radiation == <<"r", "a", "d", "i", "a", "t", "i", "o", "n">>
et_short_crop == <<"e", "t", "_", "s", "h", "o", "r", "t", "_", "c", "r", "o", "p">>
evap_pan == <<"e", "v", "a", "p", "_", "p", "a", "n">>
code == <<"c", "o", "d", "e">>
date == <<"d", "a", "t", "e">>

\* str.lower() on one character.
LowerChar(c) ==
    CASE c = "A" -> "a" [] c = "B" -> "b" [] c = "C" -> "c" [] c = "D" -> "d"
      [] c = "E" -> "e" [] c = "F" -> "f" [] c = "G" -> "g" [] c = "H" -> "h"
      [] c = "I" -> "i" [] c = "J" -> "j" [] c = "K" -> "k" [] c = "L" -> "l"
      [] c = "M" -> "m" [] c = "N" -> "n" [] c = "O" -> "o" [] c = "P" -> "p"
      [] c = "Q" -> "q" [] c = "R" -> "r" [] c = "S" -> "s" [] c = "T" -> "t"
      [] c = "U" -> "u" [] c = "V" -> "v" [] c = "W" -> "w" [] c = "X" -> "x"
      [] c = "Y" -> "y" [] c = "Z" -> "z"
      [] OTHER -> c

Lower(s) == [i \in 1..Len(s) |-> LowerChar(s[i])]

\* str.strip(): leading and trailing blanks removed.
RECURSIVE StripLeft(_)
StripLeft(s) == IF Len(s) > 0 /\ Head(s) = " " THEN StripLeft(Tail(s)) ELSE s

RECURSIVE StripRight(_)
StripRight(s) ==
    IF Len(s) > 0 /\ s[Len(s)] = " " THEN StripRight(SubSeq(s, 1, Len(s) - 1)) ELSE s

Strip(s) == StripRight(StripLeft(s))

\* Python's "a in b" on strings: a is a contiguous part of b.
Contains(a, b) ==
    \E i \in 0..(Len(b) - Len(a)) : SubSeq(b, i + 1, i + Len(a)) = a

\* FAO56_MAPPING and DAILY_MAPPING, in declaration order: <<SILO name, output name>>.
FAO56_MAPPING ==
    << <<S_Date, date>>, <<S_Rain, daily_rain>>, <<S_Rainfall, daily_rain>>,
       <<S_TMax, max_temp>>, <<S_TMin, min_temp>>, <<S_VP, vp>>,
       <<S_Radn, radiation>>, <<S_Radiation, radiation>>, <<S_FAO56, et_short_crop>>,
       <<S_Evap, evap_pan>>, <<S_Evaporation, evap_pan>> >>

DAILY_MAPPING ==
    << <<S_Date, date>>, <<S_Rain, daily_rain>>, <<S_Tmax, max_temp>>,
       <<S_Tmin, min_temp>>, <<S_VP, vp>>, <<S_Radiation, radiation>>,
       <<S_FAO56, et_short_crop>>, <<S_Evap, evap_pan>> >>

REQUIRED_VARIABLES ==
    <<daily_rain, max_temp, min_temp, vp, radiation, et_short_crop, evap_pan>>

\* The list without its last code.
MISSING_CODES_Short == <<-99990, -999, -9990>>

\* MISSING_CODES = [-9999, -99.9, -999, -99], in tenths.
MISSING_CODES == <<-99990, -999, -9990, -990>>

NaN == <<>>

SelectMapping(fmt) == IF fmt = "fao56" THEN FAO56_MAPPING ELSE DAILY_MAPPING

\* A reverse mapping that keeps every SILO name under every output column.
RECURSIVE PossibleNamesAll(_, _)
PossibleNamesAll(mapping, output_col) ==
    IF mapping = <<>> THEN <<>>
    ELSE IF Head(mapping)[1] # S_Date
         THEN <<Head(mapping)[1]>> \o PossibleNamesAll(Tail(mapping), output_col)
         ELSE PossibleNamesAll(Tail(mapping), output_col)

\* output_to_silo[output_col]: the SILO names mapped to output_col, in declaration
\* order, 'Date' skipped.
RECURSIVE PossibleNames(_, _)
PossibleNames(mapping, output_col) ==
    IF mapping = <<>> THEN <<>>
    ELSE LET silo_col == Head(mapping)[1]
             rest == PossibleNames(Tail(mapping), output_col)
         IN  IF silo_col # S_Date /\ Head(mapping)[2] = output_col
             THEN <<silo_col>> \o rest
             ELSE rest

\* The test of line 326 without lower() on the raw column.
MatchesCaseSensitive(col, silo_col) ==
    LET col_lower == Strip(col)
        silo_lower == Strip(Lower(silo_col))
    IN  \/ col_lower = silo_lower
        \/ Contains(silo_lower, col_lower)
        \/ Contains(col_lower, silo_lower)

\* Line 326: exact match, or a substring match in either direction, ignoring case.
Matches(col, silo_col) ==
    LET col_lower == Lower(Strip(col))
        silo_lower == Strip(Lower(silo_col))
    IN  \/ col_lower = silo_lower
        \/ Contains(silo_lower, col_lower)
        \/ Contains(col_lower, silo_lower)

\* Lines 317-330: the first raw column, in the frame's order, that matches any of
\* possible_names; 0 when none does (found_col is None).  A column named '' matches
\* but is falsy at line 329, so the scan goes on past it.
FindColumn(columns, possible_names) ==
    LET hits == {i \in 1..Len(columns) :
                    \E k \in 1..Len(possible_names) : Matches(columns[i], possible_names[k])}
        named == {i \in hits : columns[i] # <<>>}
    IN  IF named # {} THEN CHOOSE i \in named : \A j \in named : i <= j
        ELSE IF hits # {} THEN CHOOSE i \in hits : \A j \in hits : i <= j
        ELSE 0

\* Lines 342-343: data.replace(code, np.nan) for each missing code.
RECURSIVE ReplaceMissing(_, _)
ReplaceMissing(cell, codes) ==
    IF codes = <<>> THEN cell
    ELSE ReplaceMissing(IF cell # NaN /\ cell[1] = Head(codes) THEN NaN ELSE cell,
                        Tail(codes))

(***************************************************************************)
(* The quality code column: astype(str).str.zfill(6).                      *)
(***************************************************************************)
Digit(d) ==
    CASE d = 0 -> "0" [] d = 1 -> "1" [] d = 2 -> "2" [] d = 3 -> "3" [] d = 4 -> "4"
      [] d = 5 -> "5" [] d = 6 -> "6" [] d = 7 -> "7" [] d = 8 -> "8" [] d = 9 -> "9"

\* str(n) of a natural number.
RECURSIVE NatStr(_)
NatStr(n) == IF n < 10 THEN Digit(n) ELSE NatStr(n \div 10) \o Digit(n % 10)

Abs(v) == IF v < 0 THEN -v ELSE v

RECURSIVE Repeat(_, _)
Repeat(c, n) == IF n <= 0 THEN "" ELSE c \o Repeat(c, n - 1)

\* str.zfill(width) of sign \o body: zeros go between the sign and the digits.
ZFill(sign, body, width) == sign \o Repeat("0", width - Len(sign) - Len(body)) \o body

\* A numeric column is int64 when every cell is a whole number, float64 otherwise
\* (a NaN makes it float64).
IsIntColumn(col) == \A r \in 1..Len(col) : col[r] # NaN /\ col[r][1] % 10 = 0

\* Line 356 on one cell: str() of the number as its dtype prints it, zero-filled to 6.
CodeString(cell, isInt) ==
    IF cell = NaN THEN ZFill("", "nan", 6)
    ELSE LET v == cell[1]
             sign == IF v < 0 THEN "-" ELSE ""
             body == IF isInt THEN NatStr(Abs(v) \div 10)
                     ELSE NatStr(Abs(v) \div 10) \o "." \o Digit(Abs(v) % 10)
         IN  ZFill(sign, body, 6)

\* Lines 349-353: the first column whose lowered name contains 'code'; 0 when none.
FindCodeColumn(columns) ==
    LET hits == {i \in 1..Len(columns) : Contains(code, Lower(columns[i]))}
    IN  IF hits = {} THEN 0 ELSE CHOOSE i \in hits : \A j \in hits : i <= j

DEFAULT_CODE == "222222"

\* Lines 355-359: the 'code' column of output_df, one cell <<string>> per row.
CodeColumn(frame) ==
    LET c == FindCodeColumn(frame.columns)
    IN  IF c # 0
        THEN [r \in 1..Len(frame.index) |->
                 <<CodeString(frame.data[c][r], IsIntColumn(frame.data[c]))>>]
        ELSE [r \in 1..Len(frame.index) |-> <<DEFAULT_CODE>>]

(***************************************************************************)
(* extract_variables.                                                      *)
(***************************************************************************)
SeqMin(s) == CHOOSE x \in {s[i] : i \in 1..Len(s)} : \A j \in 1..Len(s) : x <= s[j]
SeqMax(s) == CHOOSE x \in {s[i] : i \in 1..Len(s)} : \A j \in 1..Len(s) : x >= s[j]
IsUnique(s) == \A i, j \in 1..Len(s) : s[i] = s[j] => i = j

\* pd.date_range(start, end, freq='D').
DateRange(start, end) == [i \in 1..(end - start + 1) |-> start + i - 1]

\* output_df.reindex(new_index) on a frame with unique labels: the row of each label
\* the frame has, a row of NaN for each label it has not.
Reindex(frame, new_index) ==
    [index |-> new_index,
     columns |-> frame.columns,
     data |-> [c \in 1..Len(frame.columns) |->
                 [i \in 1..Len(new_index) |->
                     IF \E r \in 1..Len(frame.index) : frame.index[r] = new_index[i]
                     THEN frame.data[c][CHOOSE r \in 1..Len(frame.index) :
                                            frame.index[r] = new_index[i]]
                     ELSE NaN]]]

\* found_col of every output_col (the column's position, 0 when None).
FoundColumns(frame, fmt) ==
    [k \in 1..Len(REQUIRED_VARIABLES) |->
        FindColumn(frame.columns, PossibleNames(SelectMapping(fmt), REQUIRED_VARIABLES[k]))]

\* The last output_col with no column, where the code reports the first.
FirstMissingLast(f) ==
    LET miss == {k \in 1..Len(f) : f[k] = 0}
    IN  IF miss = {} THEN 0 ELSE CHOOSE k \in miss : \A j \in miss : k >= j

\* The first output_col, in REQUIRED_VARIABLES order, with no column; 0 when all have one.
FirstMissing(f) ==
    LET miss == {k \in 1..Len(f) : f[k] = 0}
    IN  IF miss = {} THEN 0 ELSE CHOOSE k \in miss : \A j \in miss : k <= j

\* Lines 333-336: the MissingVariableError raised for REQUIRED_VARIABLES[k].
MissingVariableError(frame, fmt, k) ==
    [class |-> "MissingVariableError",
     variable |-> REQUIRED_VARIABLES[k],
     tried |-> PossibleNames(SelectMapping(fmt), REQUIRED_VARIABLES[k]),
     available |-> frame.columns]

\* Lines 338-367: output_df before the reindex, the seven variables then 'code'.
OutputFrame(frame, f) ==
    [index |-> frame.index,
     columns |-> REQUIRED_VARIABLES \o <<code>>,
     data |-> [k \in 1..Len(REQUIRED_VARIABLES) |->
                  [r \in 1..Len(frame.index) |->
                      ReplaceMissing(frame.data[f[k]][r], MISSING_CODES)]]
              \o <<CodeColumn(frame)>>]

\* Lines 369-376: reindex raises ValueError on duplicate labels.
ReindexError(index) ==
    IF Len(index) > 0 /\ ~IsUnique(index)
    THEN [class |-> "ValueError", what |-> "cannot reindex on an axis with duplicate labels"]
    ELSE NoError

\* Lines 369-378: the frame returned.
Reindexed(out) ==
    IF Len(out.index) > 0
    THEN Reindex(out, DateRange(SeqMin(out.index), SeqMax(out.index)))
    ELSE out

\* api.extract_variables(df, format).
ExtractVariables ==
    /\ op = "extract_variables"
    /\ pc = "call"
    /\ \E f \in {FoundColumns(df, format)} :
        \E k \in {FirstMissing(f)} :
            IF k # 0
            THEN /\ found' = SubSeq(f, 1, k - 1)
                 /\ err' = MissingVariableError(df, format, k)
                 /\ pc' = "raised"
                 /\ ret' = ret
            ELSE \E out \in {OutputFrame(df, f)} :
                    /\ found' = f
                    /\ err' = ReindexError(out.index)
                    /\ pc' = IF err' = NoError THEN "returned" ELSE "raised"
                    /\ ret' = IF err' = NoError THEN Reindexed(out) ELSE ret
    /\ UNCHANGED <<op, lat, lon, start_year, end_year, current_year, format, df,
                   met_file, response, data_start_idx, trace, csv_file, given>>

(***************************************************************************)
(* The raw tables extract_variables is called with: a header layout, up to *)
(* MaxRows rows in ascending date order (parse_silo_response sorts, and    *)
(* keeps repeated dates), each row filled after one of the row kinds.      *)
(***************************************************************************)
HeaderLayouts ==
    { <<S_Rain, S_TMax, S_TMin, S_VP, S_Radn, S_FAO56, S_Evap>>,
      <<S_Rain, S_TMax, S_TMin, S_VP, S_Radn, S_FAO56, S_Evap, S_Code>>,
      <<S_Rain, S_Tmax, S_Tmin, S_VP, S_Radiation, S_FAO56, S_Evap>>,
      <<daily_rain, max_temp, min_temp, vp, radiation, et_short_crop, evap_pan>>,
      <<S_Evaporation, S_FAO56, S_Radiation, S_VP, S_TMin, S_TMax, S_Rainfall>>,
      <<S_Rain, S_VP, S_Radn, S_FAO56, S_Evap>>,
      <<S_TMax, S_TMin, S_VP, S_Radn>> }

RowKinds == {"values", "sentinels", "near", "nan"}

\* The numbers SILO writes for a missing value: -9999, -99.9, -999, -99.
SentinelInputs == <<-99990, -999, -9990, -990>>

\* The cell of column j in a row of the given kind: a value of the column's own
\* (100 j + 5), a missing code, a number next to a missing code, or NaN.
ValueCell(kind, j) ==
    CASE kind = "values" -> <<100 * j + 5>>
      [] kind = "sentinels" -> <<SentinelInputs[((j - 1) % 4) + 1]>>
      [] kind = "near" -> <<SentinelInputs[((j - 1) % 4) + 1] + 1>>
      [] OTHER -> NaN

\* The cell of a quality code column: 222222, 22 or NaN.
CodeCell(kind) ==
    CASE kind = "values" -> <<2222220>>
      [] kind = "sentinels" -> <<220>>
      [] kind = "near" -> <<2222220>>
      [] OTHER -> NaN

RawFrame(columns, dates, kinds) ==
    [index |-> dates,
     columns |-> columns,
     data |-> [j \in 1..Len(columns) |->
                 [r \in 1..Len(dates) |->
                     IF columns[j] = S_Code THEN CodeCell(kinds[r])
                     ELSE ValueCell(kinds[r], j)]]]

IsAscending(s) == \A i \in 1..(Len(s) - 1) : s[i] <= s[i + 1]

InitNormalize ==
    /\ op = "extract_variables"
    /\ pc = "call"
    /\ lat = 0
    /\ lon = 0
    /\ start_year = 0
    /\ end_year = 0
    /\ current_year = 0
    /\ format \in {"fao56", "daily"}
    /\ \E n \in 0..MaxRows : \E columns \in HeaderLayouts :
           \E dates \in {d \in [1..n -> 0..MaxDay] : IsAscending(d)} :
               \E kinds \in [1..n -> RowKinds] :
                   df = RawFrame(columns, dates, kinds)
    /\ found = <<>>
    /\ ret = NoFrame
    /\ err = NoError
    /\ met_file = <<>>
    /\ response = NoResponse
    /\ data_start_idx = 0
    /\ trace = <<>>
    /\ csv_file = <<>>
    /\ given = NoFrame

NextNormalize == ExtractVariables

SpecNormalize == InitNormalize /\ [][NextNormalize]_vars

(***************************************************************************)
(* Claims about extract_variables.                                         *)
(***************************************************************************)
CanonicalLayout ==
    <<daily_rain, max_temp, min_temp, vp, radiation, et_short_crop, evap_pan>>

Fao56Layout == <<S_Rain, S_TMax, S_TMin, S_VP, S_Radn, S_FAO56, S_Evap>>

NoTemperatureLayout == <<S_Rain, S_VP, S_Radn, S_FAO56, S_Evap>>

Normalized == op = "extract_variables" /\ pc # "call"

\* The position of date d in the index of a frame.
RowOf(frame, d) == CHOOSE i \in 1..Len(frame.index) : frame.index[i] = d

HasDate(frame, d) == \E i \in 1..Len(frame.index) : frame.index[i] = d

(***************************************************************************)
(* C3, as stated: normalizing (either format) a raw table whose seven data *)
(* columns are named exactly daily_rain, max_temp, min_temp, vp, radiation,*)
(* et_short_crop, evap_pan succeeds and yields, for each of the seven      *)
(* variables, the values of the input column of the same name.             *)
(***************************************************************************)
C3_CanonicalRoundTrip ==
    (Normalized /\ df.columns = CanonicalLayout /\ Len(df.index) > 0) =>
        /\ pc = "returned"
        /\ \A k \in 1..7 : \A r \in 1..Len(df.index) :
               /\ HasDate(ret, df.index[r])
               /\ ret.data[k][RowOf(ret, df.index[r])] = df.data[k][r]

(***************************************************************************)
(* C3, amended: normalizing (either format) a raw table whose seven data   *)
(* columns are named exactly with the canonical names does not succeed:    *)
(* daily_rain alone resolves (its name contains "rain"), no candidate of   *)
(* max_temp (T.Max, Tmax) matches any column, MissingVariableError is      *)
(* raised for max_temp and no series is returned.                          *)
(***************************************************************************)
C3_CanonicalNamesRejected ==
    (Normalized /\ df.columns = CanonicalLayout) =>
        /\ pc = "raised"
        /\ err.class = "MissingVariableError"
        /\ err.variable = max_temp
        /\ err.tried = (IF format = "fao56" THEN <<S_TMax>> ELSE <<S_Tmax>>)
        /\ found = <<1>>
        /\ ret = NoFrame

\* A canonically named table with rows of values has been rejected.
C3_Witness ==
    /\ Normalized
    /\ df.columns = CanonicalLayout
    /\ Len(df.index) = 2
    /\ df.data[2][1] = <<205>>
    /\ pc = "raised"

\* extract_variables got as far as the reindex: every variable has a column.
Accepted == Normalized /\ err.class # "MissingVariableError"

(***************************************************************************)
(* C4: for any raw table that normalize accepts (tables with missing days  *)
(* and tables with repeated dates included), the normalized series' date   *)
(* index is a daily calendar with no gaps and no repeats, from the raw     *)
(* table's minimum date to its maximum date: its length is                 *)
(* (max_date - min_date) in days + 1.                                      *)
(***************************************************************************)
C4_ContiguousCalendar ==
    (Accepted /\ Len(df.index) > 0) =>
        /\ pc = "returned"
        /\ Len(ret.index) = SeqMax(df.index) - SeqMin(df.index) + 1
        /\ \A i \in 1..Len(ret.index) : ret.index[i] = SeqMin(df.index) + i - 1

\* What the code does: the calendar is built when the dates are distinct, and a
\* table with a repeated date ends in the ValueError of reindex.
C4_ContiguousWhenDistinct ==
    (Accepted /\ Len(df.index) > 0) =>
        IF IsUnique(df.index)
        THEN /\ pc = "returned"
             /\ Len(ret.index) = SeqMax(df.index) - SeqMin(df.index) + 1
             /\ \A i \in 1..Len(ret.index) : ret.index[i] = SeqMin(df.index) + i - 1
        ELSE pc = "raised" /\ err.class = "ValueError" /\ ret = NoFrame

(***************************************************************************)
(* C5: in the normalized series, every date between the raw table's min    *)
(* and max date that has no row in the raw table is a row whose seven      *)
(* variables are all null and whose code is the default string "222222";   *)
(* and every row has code "222222" when the raw table has no code column.  *)
(***************************************************************************)
C5_GapRowsDefaultCode ==
    (Normalized /\ pc = "returned") =>
        /\ \A i \in 1..Len(ret.index) :
               ~HasDate(df, ret.index[i]) =>
                   /\ \A k \in 1..7 : ret.data[k][i] = NaN
                   /\ ret.data[8][i] = <<"222222">>
        /\ FindCodeColumn(df.columns) = 0 =>
               \A i \in 1..Len(ret.index) : ret.data[8][i] = <<"222222">>

\* What the code does: a date with no source row is NaN in all eight columns, the
\* code included; the rows that come from the source carry the default code.
C5_GapRowsNullCode ==
    (Normalized /\ pc = "returned") =>
        \A i \in 1..Len(ret.index) :
            IF HasDate(df, ret.index[i])
            THEN FindCodeColumn(df.columns) = 0 => ret.data[8][i] = <<"222222">>
            ELSE \A c \in 1..8 : ret.data[c][i] = NaN

IsSentinel(cell) == cell \in {<<-99990>>, <<-999>>, <<-9990>>, <<-990>>}

(***************************************************************************)
(* C6: for every resolved canonical variable and every row, if the raw     *)
(* value is one of the sentinels -9999, -99.9, -999, -99 the normalized    *)
(* value is null, and if the raw value is a number outside that set the    *)
(* normalized value equals the raw value.                                  *)
(***************************************************************************)
C6_SentinelsToNull ==
    (Normalized /\ pc = "returned") =>
        \A k \in 1..7 : \A r \in 1..Len(df.index) :
            LET raw == df.data[found[k]][r]
                norm == ret.data[k][RowOf(ret, df.index[r])]
            IN  /\ HasDate(ret, df.index[r])
                /\ IsSentinel(raw) => norm = NaN
                /\ (raw # NaN /\ ~IsSentinel(raw)) => norm = raw

\* A series was returned for a row of sentinels (-99 among them) and a row of numbers
\* one tenth above them: the first are null, the second kept.
C6_Witness ==
    /\ Normalized
    /\ pc = "returned"
    /\ Len(df.index) = 2
    /\ df.data[found[4]][1] = <<-990>>
    /\ ret.data[4][RowOf(ret, df.index[1])] = NaN
    /\ df.data[found[4]][2] = <<-989>>
    /\ ret.data[4][RowOf(ret, df.index[2])] = <<-989>>

\* No raw column matches any candidate name of REQUIRED_VARIABLES[k].
Unmatched(k) ==
    \E names \in {PossibleNames(SelectMapping(format), REQUIRED_VARIABLES[k])} :
        \A i \in 1..Len(df.columns) : \A n \in 1..Len(names) :
            ~Matches(df.columns[i], names[n])

(***************************************************************************)
(* C8: when no raw column matches any candidate source name of a required  *)
(* canonical variable (in particular a raw table with no temperature-like  *)
(* header), normalize fails with MissingVariable for the first such        *)
(* variable in canonical order, the error names that variable, the         *)
(* candidate names tried and the available raw columns, and no normalized  *)
(* series, not even a partial one, is returned.                            *)
(***************************************************************************)
C8_MissingVariable ==
    Normalized =>
        /\ \E U \in {{k \in 1..7 : Unmatched(k)}} :
               \A k \in U :
                   (\A j \in U : k <= j) =>
                       /\ pc = "raised"
                       /\ err.class = "MissingVariableError"
                       /\ err.variable = REQUIRED_VARIABLES[k]
                       /\ err.tried =
                              PossibleNames(SelectMapping(format), REQUIRED_VARIABLES[k])
                       /\ err.available = df.columns
                       /\ ret = NoFrame
        /\ df.columns = NoTemperatureLayout =>
               /\ pc = "raised"
               /\ err.class = "MissingVariableError"
               /\ err.variable = max_temp
               /\ err.tried = (IF format = "fao56" THEN <<S_TMax>> ELSE <<S_Tmax>>)
               /\ err.available = NoTemperatureLayout
               /\ ret = NoFrame

\* A table with rows that lacks daily_rain, et_short_crop and evap_pan has been
\* rejected for daily_rain, the first of the three.
C8_Witness ==
    /\ Normalized
    /\ df.columns = <<S_TMax, S_TMin, S_VP, S_Radn>>
    /\ Len(df.index) > 0
    /\ pc = "raised"
    /\ err.class = "MissingVariableError"
    /\ err.variable = daily_rain

(***************************************************************************)
(* C9: normalizing with format 'fao56' a raw table indexed by Date whose   *)
(* columns are Rain, T.Max, T.Min, VP, Radn, FAO56, Evap never raises      *)
(* MissingVariable, whatever the row values; each canonical variable is    *)
(* bound to the column of its own mapped source name (daily_rain <- Rain,  *)
(* max_temp <- T.Max, min_temp <- T.Min, vp <- VP, radiation <- Radn,      *)
(* et_short_crop <- FAO56, evap_pan <- Evap) and carries that column's     *)
(* values; the series is returned whenever the dates are distinct, with    *)
(* the columns in the order daily_rain, max_temp, min_temp, vp, radiation, *)
(* et_short_crop, evap_pan, code.                                          *)
(***************************************************************************)
C9_Fao56Resolves ==
    (Normalized /\ format = "fao56" /\ df.columns = Fao56Layout) =>
        /\ err.class # "MissingVariableError"
        /\ found = <<1, 2, 3, 4, 5, 6, 7>>
        /\ IsUnique(df.index) => pc = "returned"
        /\ pc = "returned" =>
               /\ ret.columns = <<daily_rain, max_temp, min_temp, vp, radiation,
                                  et_short_crop, evap_pan, code>>
               /\ \A k \in 1..7 : \A r \in 1..Len(df.index) :
                      LET norm == ret.data[k][RowOf(ret, df.index[r])]
                      IN  /\ norm \in {df.data[k][r], NaN}
                          /\ df.data[k][r] = <<100 * k + 5>> => norm = <<100 * k + 5>>

\* A series was returned for an fao56 table with a row of values.
C9_Witness ==
    /\ Normalized
    /\ format = "fao56"
    /\ df.columns = Fao56Layout
    /\ Len(df.index) = 2
    /\ df.data[7][2] = <<705>>
    /\ pc = "returned"
    /\ ret.data[7][RowOf(ret, df.index[2])] = <<705>>

(***************************************************************************)
(* Calendar: date.year and DatetimeIndex.dayofyear of a day number.        *)
(***************************************************************************)
IsLeap(y) == y % 4 = 0 /\ (y % 100 # 0 \/ y % 400 = 0)

DaysIn(y) == IF IsLeap(y) THEN 366 ELSE 365

\* <<year, day of year>> of day d counted from 1 January of year y.
RECURSIVE YearDay(_, _)
YearDay(d, y) == IF d < DaysIn(y) THEN <<y, d + 1>> ELSE YearDay(d - DaysIn(y), y + 1)

YearOf(d) == YearDay(d, EpochYear)[1]
DayOfYear(d) == YearDay(d, EpochYear)[2]

(***************************************************************************)
(* shift_evaporation.                                                      *)
(***************************************************************************)
\* The position of the column named name; 0 when the frame has none.
ColumnIndex(frame, name) ==
    LET hits == {i \in 1..Len(frame.columns) : frame.columns[i] = name}
    IN  IF hits = {} THEN 0 ELSE CHOOSE i \in hits : \A j \in hits : i <= j

\* Series.shift(-1): each day takes the next day's value, the last day NaN.
ShiftBack(col) == [i \in 1..Len(col) |-> IF i < Len(col) THEN col[i + 1] ELSE NaN]

\* Series.ffill(): every NaN takes the last value before it that is not NaN.
RECURSIVE FFill(_)
FFill(col) ==
    IF Len(col) <= 1 THEN col
    ELSE LET front == FFill(SubSeq(col, 1, Len(col) - 1))
             last == col[Len(col)]
         IN  Append(front, IF last = NaN THEN front[Len(front)] ELSE last)

\* Lines 461-468: the evap_pan column after the shift and the conditional fill.
ShiftedEvap(col) ==
    LET shifted == ShiftBack(col)
    IN  IF \E i \in 1..Len(shifted) : shifted[i] = NaN THEN FFill(shifted) ELSE shifted

\* Lines 454-455: the ValueError for a frame without evap_pan.
ShiftError(frame) ==
    IF ColumnIndex(frame, evap_pan) = 0
    THEN [class |-> "ValueError", what |-> "DataFrame must contain evap_pan column"]
    ELSE NoError

\* Lines 457-470: the copy returned, evap_pan replaced.
ShiftEvaporationFrame(frame) ==
    [frame EXCEPT !.data[ColumnIndex(frame, evap_pan)] = ShiftedEvap(@)]

\* api.shift_evaporation(df).
ShiftEvaporation ==
    /\ op = "shift_evaporation"
    /\ pc = "call"
    /\ err' = ShiftError(df)
    /\ pc' = IF err' = NoError THEN "returned" ELSE "raised"
    /\ ret' = IF err' = NoError THEN ShiftEvaporationFrame(df) ELSE ret
    /\ UNCHANGED <<op, lat, lon, start_year, end_year, current_year, format, df, found,
                   met_file, response, data_start_idx, trace, csv_file, given>>

(***************************************************************************)
(* export_to_met: the data rows (lines 554-601).  The preamble written     *)
(* before them (lines 527-556) holds no table value but tav and amp and is *)
(* not part of met_file.                                                   *)
(***************************************************************************)
\* A string right-aligned in width characters; a longer one is kept whole.
PadLeft(str, width) == Repeat(" ", width - Len(str)) \o str

NAN_TOKEN == "   NaN"

\* The format applied to every cell, null or not: Python prints a NaN as "nan".
FormatValueNoNullCase(cell) ==
    IF cell = NaN THEN "   nan"
    ELSE LET v == cell[1]
         IN  PadLeft((IF v < 0 THEN "-" ELSE "") \o NatStr(Abs(v) \div 10)
                       \o "." \o Digit(Abs(v) % 10), 6)

\* Lines 564-592: f"{value:6.1f}" of a number, "   NaN" for a null.
FormatValue(cell) ==
    IF cell = NaN THEN NAN_TOKEN
    ELSE LET v == cell[1]
         IN  PadLeft((IF v < 0 THEN "-" ELSE "") \o NatStr(Abs(v) \div 10)
                       \o "." \o Digit(Abs(v) % 10), 6)

\* Line 594: str(row['code']).zfill(6), "222222" for a null.
FormatCode(cell) == IF cell # NaN THEN ZFill("", cell[1], 6) ELSE DEFAULT_CODE

\* Line 599: the row written, without its newline.
MetLine(year, day, radn, maxt, mint, rain, evap, vap, codestr) ==
    PadLeft(NatStr(year), 4) \o " " \o PadLeft(NatStr(day), 4) \o " "
      \o PadLeft(radn, 6) \o " " \o PadLeft(maxt, 6) \o " " \o PadLeft(mint, 6) \o " "
      \o PadLeft(rain, 6) \o " " \o PadLeft(evap, 6) \o " " \o PadLeft(vap, 6) \o " "
      \o PadLeft(codestr, 7)

Column(frame, name) == frame.data[ColumnIndex(frame, name)]

\* Lines 510-518: calculate_tav and calculate_amp need max_temp and min_temp,
\* shift_evaporation needs evap_pan.
MetError(frame) ==
    IF ColumnIndex(frame, max_temp) = 0 \/ ColumnIndex(frame, min_temp) = 0
    THEN [class |-> "ValueError",
          what |-> "DataFrame must contain max_temp and min_temp columns"]
    ELSE ShiftError(frame)

\* Lines 558-599: one row for each date of the frame with day and shifted evap_pan.
\* row['day'] comes from the index and is never null, so line 560 takes int(row['day']).
MetRows(frame) ==
    LET shifted == ShiftEvaporationFrame(frame)
    IN  [i \in 1..Len(frame.index) |->
            MetLine(YearOf(shifted.index[i]),
                    DayOfYear(shifted.index[i]),
                    FormatValue(Column(shifted, radiation)[i]),
                    FormatValue(Column(shifted, max_temp)[i]),
                    FormatValue(Column(shifted, min_temp)[i]),
                    FormatValue(Column(shifted, daily_rain)[i]),
                    FormatValue(Column(shifted, evap_pan)[i]),
                    FormatValue(Column(shifted, vp)[i]),
                    FormatCode(Column(shifted, code)[i]))]

\* api.export_to_met(df, lat, lon, start_year, end_year, output_dir).
ExportToMet ==
    /\ op = "export_to_met"
    /\ pc = "call"
    /\ err' = MetError(df)
    /\ pc' = IF err' = NoError THEN "returned" ELSE "raised"
    /\ met_file' = IF err' = NoError THEN MetRows(df) ELSE met_file
    /\ UNCHANGED <<op, lat, lon, start_year, end_year, current_year, format, df, found,
                   ret, response, data_start_idx, trace, csv_file, given>>

(***************************************************************************)
(* The series the emitters are given: a daily calendar from a start day,   *)
(* up to MaxLen days, each day filled after one of the day kinds; with the *)
(* eight columns of extract_variables, or without evap_pan.                *)
(***************************************************************************)
SeriesColumns ==
    <<daily_rain, max_temp, min_temp, vp, radiation, et_short_crop, evap_pan, code>>

SeriesLayouts ==
    { SeriesColumns,
      <<daily_rain, max_temp, min_temp, vp, radiation, et_short_crop, code>> }

\* 1 January, 29 February, 30 and 31 December of the epoch year.
StartDays == {0, 59, 364, 365}

DayKinds == {"values", "nan", "evapnan", "negative"}

\* The cell of column j on day r of the series.
SeriesCell(kind, name, j, r) ==
    IF name = code
    THEN CASE kind = "values" -> <<"222222">>
           [] kind = "evapnan" -> <<"22">>
           [] kind = "negative" -> <<"222222.0">>
           [] OTHER -> NaN
    ELSE CASE kind = "values" -> <<100 * j + r>>
           [] kind = "evapnan" -> IF name = evap_pan THEN NaN ELSE <<100 * j + r>>
           [] kind = "negative" -> <<0 - (10 * j + r)>>
           [] OTHER -> NaN

SeriesFrame(columns, start, kinds) ==
    [index |-> [r \in 1..Len(kinds) |-> start + r - 1],
     columns |-> columns,
     data |-> [j \in 1..Len(columns) |->
                 [r \in 1..Len(kinds) |-> SeriesCell(kinds[r], columns[j], j, r)]]]

InitSeries ==
    /\ op \in {"shift_evaporation", "export_to_met"}
    /\ pc = "call"
    /\ lat = 0
    /\ lon = 0
    /\ start_year = 0
    /\ end_year = 0
    /\ current_year = 0
    /\ format = "fao56"
    /\ \E n \in 0..MaxLen : \E columns \in SeriesLayouts : \E start \in StartDays :
           \E kinds \in [1..n -> DayKinds] :
               df = SeriesFrame(columns, start, kinds)
    /\ found = <<>>
    /\ ret = NoFrame
    /\ err = NoError
    /\ met_file = <<>>
    /\ response = NoResponse
    /\ data_start_idx = 0
    /\ trace = <<>>
    /\ csv_file = <<>>
    /\ given = NoFrame

NextSeries ==
    \/ ShiftEvaporation
    \/ ExportToMet

SpecSeries == InitSeries /\ [][NextSeries]_vars

(***************************************************************************)
(* Claims about shift_evaporation and export_to_met.                       *)
(***************************************************************************)
Shifted == op = "shift_evaporation" /\ pc = "returned"

EvapBefore == Column(df, evap_pan)
EvapAfter == Column(ret, evap_pan)

OtherColumnsUnchanged ==
    /\ ret.index = df.index
    /\ ret.columns = df.columns
    /\ \A c \in 1..Len(df.columns) : df.columns[c] # evap_pan => ret.data[c] = df.data[c]

(***************************************************************************)
(* C7: after shift_evaporation on any series (series whose evap_pan is     *)
(* null on interior days and series of length 1 included), for every day d *)
(* except the last the shifted evap_pan[d] equals the pre-shift            *)
(* evap_pan[d+1] (null when that value is null), and the last day's value  *)
(* equals the second-to-last day's post-shift value; all other columns are *)
(* unchanged.                                                              *)
(***************************************************************************)
C7_ShiftProperty ==
    Shifted =>
        /\ \A d \in 1..(Len(df.index) - 1) : EvapAfter[d] = EvapBefore[d + 1]
        /\ Len(df.index) >= 2 => EvapAfter[Len(df.index)] = EvapAfter[Len(df.index) - 1]
        /\ OtherColumnsUnchanged

\* What the code does: the forward fill of line 468 reaches every null the shift
\* leaves, not the last day alone, so a day whose next day is null takes the value
\* of the day before it.
C7_ShiftThenForwardFill ==
    Shifted =>
        /\ \A d \in 1..Len(df.index) :
               EvapAfter[d] =
                   IF d < Len(df.index) /\ EvapBefore[d + 1] # NaN THEN EvapBefore[d + 1]
                   ELSE IF d = 1 THEN NaN
                   ELSE EvapAfter[d - 1]
        /\ OtherColumnsUnchanged

Exported == op = "export_to_met" /\ pc = "returned"

\* The token the claim gives for a numeric cell: "   NaN" for a null, else the
\* number with one decimal in at least six characters.
NumericToken(cell) == IF cell = NaN THEN "   NaN" ELSE FormatValue(cell)

\* The token the claim gives for a code: " 222222" for a null.
CodeToken(cell) == IF cell = NaN THEN " 222222" ELSE PadLeft(FormatCode(cell), 7)

DIGITS == <<"0", "1", "2", "3", "4", "5", "6", "7", "8", "9">>

\* str.isdigit(): not empty, and digits only.
IsDigit(s) == Len(s) > 0 /\ \A i \in 1..Len(s) : \E k \in 1..Len(DIGITS) : DIGITS[k] = s[i]

\* int(s) of a string of digits.
RECURSIVE DigitsValue(_)
DigitsValue(s) ==
    IF s = <<>> THEN 0
    ELSE 10 * DigitsValue(SubSeq(s, 1, Len(s) - 1))
           + (CHOOSE k \in 1..Len(DIGITS) : DIGITS[k] = s[Len(s)]) - 1

\* The characters of str(n), n a natural number.
RECURSIVE NatChars(_)
NatChars(n) ==
    IF n < 10 THEN <<DIGITS[n + 1]>>
    ELSE Append(NatChars(n \div 10), DIGITS[(n % 10) + 1])

\* str.split(sep) for a one-character sep: the parts of s between its occurrences.
Split(s, sep) ==
    LET at == SelectSeq([i \in 1..Len(s) |-> i], LAMBDA i : s[i] = sep)
        cuts == <<0>> \o at \o <<Len(s) + 1>>
    IN  [k \in 1..(Len(at) + 1) |-> SubSeq(s, cuts[k] + 1, cuts[k + 1] - 1)]

\* The fields of a line under sep=r'\s+': the runs of characters between blanks.
Fields(line) == SelectSeq(Split(line, " "), LAMBDA f : f # <<>>)

\* sep.join(parts).
RECURSIVE Join(_, _)
Join(parts, sep) ==
    IF parts = <<>> THEN <<>>
    ELSE IF Len(parts) = 1 THEN parts[1]
    ELSE parts[1] \o sep \o Join(Tail(parts), sep)

\* The lines of a text without the blank lines at its two ends.
RECURSIVE TrimBlankLines(_)
TrimBlankLines(text) ==
    IF text # <<>> /\ Strip(Head(text)) = <<>> THEN TrimBlankLines(Tail(text))
    ELSE IF text # <<>> /\ Strip(text[Len(text)]) = <<>>
    THEN TrimBlankLines(SubSeq(text, 1, Len(text) - 1))
    ELSE text

\* Line 205: response_text.strip().split('\n').  The blank lines at both ends go,
\* the first line loses its leading and the last its trailing blanks; the empty
\* text splits into one empty line.
SplitLines(text) ==
    LET t == TrimBlankLines(text)
    IN  IF t = <<>> THEN << <<>> >>
        ELSE IF Len(t) = 1 THEN <<Strip(t[1])>>
        ELSE <<StripLeft(t[1])>> \o SubSeq(t, 2, Len(t) - 1) \o <<StripRight(t[Len(t)])>>

\* Python's s[idx:] for a list, idx negative counting from the end.
SliceFrom(s, idx) ==
    LET start == IF idx >= 0 THEN idx
                 ELSE IF Len(s) + idx < 0 THEN 0 ELSE Len(s) + idx
    IN  SubSeq(s, start + 1, Len(s))

(***************************************************************************)
(* parse_silo_response: where the table starts (lines 205-228).            *)
(* Positions are 0-based as in the code: lines[0] is SplitLines(text)[1].  *)
(***************************************************************************)
HEADER_SYNONYMS == <<S_Rainfall, S_Rain, S_TMax, S_Tmax, S_TMin, S_Tmin>>

\* Lines 211-213: the line holds 'Date' (or 'date' once lowered) and a synonym.
IsNamedHeader(line) ==
    /\ Contains(S_Date, line) \/ Contains(date, Lower(line))
    /\ \E k \in 1..Len(HEADER_SYNONYMS) : Contains(HEADER_SYNONYMS[k], line)

\* Lines 220-223: a comma, more than five comma fields, the first one 8 digits.
IsDataShaped(line) ==
    /\ Contains(<<",">>, line)
    /\ Len(Split(line, ",")) > 5
    /\ LET first_val == Strip(Split(line, ",")[1])
       IN  Len(first_val) = 8 /\ IsDigit(first_val)

\* The 0-based position of the first line with the property; -1 when no line has it.
FirstNamedHeader(lines) ==
    LET hits == {i \in 1..Len(lines) : IsNamedHeader(lines[i])}
    IN  IF hits = {} THEN -1 ELSE (CHOOSE i \in hits : \A j \in hits : i <= j) - 1

FirstDataShaped(lines) ==
    LET hits == {i \in 1..Len(lines) : IsDataShaped(lines[i])}
    IN  IF hits = {} THEN -1 ELSE (CHOOSE i \in hits : \A j \in hits : i <= j) - 1

\* Lines 208-215: data_start_idx after the first loop; it starts at 0 and is
\* assigned i at the first named header.
NamedHeaderScan(lines) ==
    IF FirstNamedHeader(lines) = -1 THEN 0 ELSE FirstNamedHeader(lines)

\* Lines 217-225: when it is still 0 the second loop assigns i - 1 at the first
\* data-shaped line.
DataStartIdx(lines) ==
    IF NamedHeaderScan(lines) # 0 THEN NamedHeaderScan(lines)
    ELSE IF FirstDataShaped(lines) = -1 THEN 0
    ELSE FirstDataShaped(lines) - 1

\* Lines 227-228.
DataStartError(idx) ==
    IF idx = 0
    THEN [class |-> "SILOAPIError", what |-> "Could not find data start in SILO response"]
    ELSE NoError
(***************************************************************************)
(* Calendar: the day number of a year, month and day.                      *)
(***************************************************************************)
DaysInMonth(y, m) ==
    CASE m = 2 -> IF IsLeap(y) THEN 29 ELSE 28
      [] m \in {4, 6, 9, 11} -> 30
      [] OTHER -> 31

RECURSIVE DaysBeforeMonth(_, _)
DaysBeforeMonth(y, m) ==
    IF m <= 1 THEN 0 ELSE DaysBeforeMonth(y, m - 1) + DaysInMonth(y, m - 1)

RECURSIVE DaysBeforeYear(_)
DaysBeforeYear(y) ==
    IF y = EpochYear THEN 0
    ELSE IF y > EpochYear THEN DaysBeforeYear(y - 1) + DaysIn(y - 1)
    ELSE DaysBeforeYear(y + 1) - DaysIn(y)

DayNumber(y, m, d) == DaysBeforeYear(y) + DaysBeforeMonth(y, m) + d - 1

\* The month (1..12) of a day number.
MonthOf(d) ==
    CHOOSE m \in 1..12 :
        /\ DaysBeforeMonth(YearOf(d), m) < DayOfYear(d)
        /\ DayOfYear(d) <= DaysBeforeMonth(YearOf(d), m) + DaysInMonth(YearOf(d), m)

(***************************************************************************)
(* parse_silo_response: the table (lines 230-282).                         *)
(***************************************************************************)
day == <<"d", "a", "y">>
date2 == <<"d", "a", "t", "e", "2">>

\* What read_csv reads: the fields of each line that has any (blank lines are
\* skipped); the first record is the header.
CsvRecords(lines) ==
    SelectSeq([i \in 1..Len(lines) |-> Fields(lines[i])], LAMBDA rec : rec # <<>>)

\* The width of the table: the header's, or the first data record's when that is
\* longer (its leading fields then become an implicit index).
TableWidth(records) ==
    IF Len(records) >= 2 /\ Len(records[2]) > Len(records[1])
    THEN Len(records[2])
    ELSE Len(records[1])

\* Lines 232-241: read_csv fails on no record at all and on a record, after the
\* first data record, with more fields than the table is wide; line 241 wraps it.
ReadCsvError(records) ==
    IF records = <<>>
    THEN [class |-> "SILOAPIError", what |-> "Failed to parse SILO CSV response",
          cause |-> "EmptyDataError"]
    ELSE IF \E k \in 3..Len(records) : Len(records[k]) > TableWidth(records)
    THEN [class |-> "SILOAPIError", what |-> "Failed to parse SILO CSV response",
          cause |-> "ParserError"]
    ELSE NoError

\* Lines 235-244: the columns named by the header (stripped), each cell the field
\* of its record as text, NaN where the record is short.  The header lines of the
\* model repeat no name, so no name is mangled.
RawTable(records) ==
    LET names == records[1]
        lead == TableWidth(records) - Len(names)
    IN  [columns |-> [j \in 1..Len(names) |-> Strip(names[j])],
         cells |-> [j \in 1..Len(names) |->
                      [r \in 1..(Len(records) - 1) |->
                          IF lead + j <= Len(records[r + 1])
                          THEN <<records[r + 1][lead + j]>>
                          ELSE NaN]]]

\* Line 251: pd.to_numeric(errors='coerce') on one cell.  The numbers the service
\* writes, an optional '-', digits and at most one decimal, convert to tenths;
\* anything else does not convert.
ToNumeric(cell) ==
    IF cell = NaN THEN NaN
    ELSE LET negative == Len(cell[1]) > 0 /\ cell[1][1] = "-"
             parts == Split(IF negative THEN Tail(cell[1]) ELSE cell[1], ".")
             sign == IF negative THEN -1 ELSE 1
         IN  IF Len(parts) = 1 /\ IsDigit(parts[1])
             THEN <<sign * 10 * DigitsValue(parts[1])>>
             ELSE IF Len(parts) = 2 /\ IsDigit(parts[1]) /\ IsDigit(parts[2])
                     /\ Len(parts[2]) = 1
             THEN <<sign * (10 * DigitsValue(parts[1]) + DigitsValue(parts[2]))>>
             ELSE NaN

\* Lines 248-251: a column not named date, day or date2 is converted; one so named
\* stays as read_csv inferred it, numbers when every cell is one, text otherwise.
ConvertColumn(name, cells) ==
    IF Lower(name) \notin {date, day, date2}
    THEN [r \in 1..Len(cells) |-> ToNumeric(cells[r])]
    ELSE IF \A r \in 1..Len(cells) : cells[r] = NaN \/ ToNumeric(cells[r]) # NaN
    THEN [r \in 1..Len(cells) |-> ToNumeric(cells[r])]
    ELSE cells

\* Lines 254-258: the first column whose lowered name contains 'date'; 0 when none.
FindDateColumn(columns) ==
    LET hits == {j \in 1..Len(columns) : Contains(date, Lower(columns[j]))}
    IN  IF hits = {} THEN 0 ELSE CHOOSE j \in hits : \A k \in hits : j <= k

\* Line 265 on one cell: pd.to_datetime(format='%Y%m%d', errors='coerce').  Eight
\* digits naming a day of the calendar give its day number, anything else NaT,
\* the null of dates, written NaN here.
\* With errors='coerce' the call does not raise, so lines 266-270 never run.
ToDatetime(cell) ==
    IF cell = NaN THEN NaN
    ELSE LET token == cell[1]
             y == DigitsValue(SubSeq(token, 1, 4))
             m == DigitsValue(SubSeq(token, 5, 6))
             d == DigitsValue(SubSeq(token, 7, 8))
         IN  IF Len(token) = 8 /\ IsDigit(token) /\ y >= 1 /\ m \in 1..12
                /\ d >= 1 /\ d <= DaysInMonth(y, m)
             THEN <<DayNumber(y, m, d)>>
             ELSE NaN

\* Lines 277-280: the rows whose date is not NaT, in ascending date order; rows of
\* the same date stay in the order of the text.
SortedRows(dates) ==
    LET kept == {r \in 1..Len(dates) : dates[r] # NaN}
        Rank(r) == Cardinality({q \in kept : \/ dates[q][1] < dates[r][1]
                                             \/ dates[q][1] = dates[r][1] /\ q < r})
    IN  [i \in 1..Cardinality(kept) |-> CHOOSE r \in kept : Rank(r) = i - 1]

\* Lines 248-282: the frame returned for a table that has a date column.
ParsedFrame(table) ==
    LET dc == FindDateColumn(table.columns)
        dates == [r \in 1..Len(table.cells[dc]) |-> ToDatetime(table.cells[dc][r])]
        rows == SortedRows(dates)
        others == SelectSeq([j \in 1..Len(table.columns) |-> j], LAMBDA j : j # dc)
    IN  [index |-> [i \in 1..Len(rows) |-> dates[rows[i]][1]],
         columns |-> [k \in 1..Len(others) |-> table.columns[others[k]]],
         data |-> [k \in 1..Len(others) |->
                     [i \in 1..Len(rows) |->
                         ConvertColumn(table.columns[others[k]],
                                       table.cells[others[k]])[rows[i]]]]]

\* parse_silo_response(response_text, format): the exception raised (NoError when
\* it returns), data_start_idx when it ended, and the frame returned.
ParseSiloResponseResult(text) ==
    LET lines == SplitLines(text)
        idx == DataStartIdx(lines)
        records == CsvRecords(SliceFrom(lines, idx))
    IN  IF DataStartError(idx) # NoError
        THEN [err |-> DataStartError(idx), idx |-> idx, frame |-> NoFrame]
        ELSE IF ReadCsvError(records) # NoError
        THEN [err |-> ReadCsvError(records), idx |-> idx, frame |-> NoFrame]
        ELSE IF FindDateColumn(RawTable(records).columns) = 0
        THEN [err |-> [class |-> "SILOAPIError",
                       what |-> "Could not find date column in SILO response"],
              idx |-> idx, frame |-> NoFrame]
        ELSE [err |-> NoError, idx |-> idx, frame |-> ParsedFrame(RawTable(records))]

\* api.parse_silo_response(response_text, format).
ParseSiloResponse ==
    /\ op = "parse_silo_response"
    /\ pc = "call"
    /\ \E p \in {ParseSiloResponseResult(response.text)} :
        /\ err' = p.err
        /\ data_start_idx' = p.idx
        /\ ret' = IF p.err = NoError THEN p.frame ELSE ret
        /\ pc' = IF p.err = NoError THEN "returned" ELSE "raised"
    /\ UNCHANGED <<op, lat, lon, start_year, end_year, current_year, format, df, found,
                   met_file, response, trace, csv_file, given>>

(***************************************************************************)
(* The lines response bodies are made of.  Dates are written in the epoch  *)
(* year; the values of a line of data are those of columns 1..7, variant v.*)
(***************************************************************************)
\* A metadata line of the preamble.
MetaLine == <<"S", "t", "a", "t", "i", "o", "n", " ">> \o NatChars(EpochYear)

\* The header of the fao56 format.
HeaderLine ==
    Join(<<S_Date, S_Rain, S_TMax, S_TMin, S_VP, S_Radn, S_FAO56, S_Evap>>, <<" ">>)

\* A line of data: the token YYYYMMDD of month m, day d of the epoch year, and
\* seven values with one decimal, sep between them.
DataLine(m, d, v, sep) ==
    LET TwoDigits(n) == <<DIGITS[(n \div 10) + 1], DIGITS[(n % 10) + 1]>>
        OneDecimal(n) == NatChars(n \div 10) \o <<".">> \o NatChars(n % 10)
    IN  Join(<<NatChars(EpochYear) \o TwoDigits(m) \o TwoDigits(d)>>
               \o [j \in 1..7 |-> OneDecimal(100 * j + v)], sep)

(***************************************************************************)
(* get_silo_data after its validation (lines 167-192): the request, the    *)
(* checks on the response, parse_silo_response, extract_variables.         *)
(***************************************************************************)
\* Lines 168-184: the exception the request ends in, NoError when the body is
\* handed to the parser.  Has(word): response.text.lower() contains word.
FetchError(resp) ==
    LET Has(word) == \E i \in 1..Len(resp.text) : Contains(word, Lower(resp.text[i]))
    IN  CASE resp.outcome = "timeout" ->
               [class |-> "SILOAPIError", what |-> "Request timeout"]
          [] resp.outcome = "http_401" ->
               [class |-> "AuthenticationError", what |-> "Authentication failed"]
          [] resp.outcome = "http_500" ->
               [class |-> "SILOAPIError", what |-> "HTTP error"]
          [] resp.outcome = "connection_error" ->
               [class |-> "SILOAPIError", what |-> "Network error"]
          [] OTHER ->
               IF /\ Has(<<"u", "s", "e", "r", "n", "a", "m", "e">>)
                  /\ Has(<<"p", "a", "s", "s", "w", "o", "r", "d">>)
                  /\ \/ Has(<<"i", "n", "v", "a", "l", "i", "d">>)
                     \/ Has(<<"e", "r", "r", "o", "r">>)
               THEN [class |-> "AuthenticationError", what |-> "Authentication failed"]
               ELSE NoError

\* Lines 167-184: requests.get(url, timeout=30), raise_for_status, and the search
\* of the body for an authentication message.
GetSiloDataFetch ==
    /\ op = "get_silo_data"
    /\ pc = "fetch"
    /\ err' = FetchError(response)
    /\ pc' = IF err' = NoError THEN "parse" ELSE "raised"
    /\ trace' = Append(trace, "request")
    /\ UNCHANGED <<op, lat, lon, start_year, end_year, current_year, format, df, found,
                   ret, met_file, response, data_start_idx, csv_file, given>>

\* Line 187: df = self.parse_silo_response(response.text, format).
GetSiloDataParse ==
    /\ op = "get_silo_data"
    /\ pc = "parse"
    /\ \E p \in {ParseSiloResponseResult(response.text)} :
        /\ err' = p.err
        /\ data_start_idx' = p.idx
        /\ df' = IF p.err = NoError THEN p.frame ELSE df
        /\ pc' = IF p.err = NoError THEN "normalize" ELSE "raised"
    /\ trace' = Append(trace, "parse")
    /\ UNCHANGED <<op, lat, lon, start_year, end_year, current_year, format, found,
                   ret, met_file, response, csv_file, given>>

\* Lines 190-192: df = self.extract_variables(df, format); return df.
GetSiloDataNormalize ==
    /\ op = "get_silo_data"
    /\ pc = "normalize"
    /\ \E f \in {FoundColumns(df, format)} :
        \E k \in {FirstMissing(f)} :
            IF k # 0
            THEN /\ found' = SubSeq(f, 1, k - 1)
                 /\ err' = MissingVariableError(df, format, k)
                 /\ pc' = "raised"
                 /\ ret' = ret
            ELSE \E out \in {OutputFrame(df, f)} :
                    /\ found' = f
                    /\ err' = ReindexError(out.index)
                    /\ pc' = IF err' = NoError THEN "returned" ELSE "raised"
                    /\ ret' = IF err' = NoError THEN Reindexed(out) ELSE ret
    /\ trace' = Append(trace, "normalize")
    /\ UNCHANGED <<op, lat, lon, start_year, end_year, current_year, format, df,
                   met_file, response, data_start_idx, csv_file, given>>

\* What the service may answer: no answer in time, a status of 401 or 500, a
\* failed connection, or a body.  Bodies: two days of data under a preamble; the
\* same without the preamble; the same day twice; a header with the names of the
\* daily format; an authentication message.
Responses ==
    {[outcome |-> o, text |-> <<>>] :
        o \in {"timeout", "http_401", "http_500", "connection_error"}}
      \cup
    {[outcome |-> "ok", text |-> b] : b \in
        { <<MetaLine, HeaderLine, DataLine(1, 1, 1, <<" ">>),
            DataLine(1, 2, 2, <<" ">>)>>,
          <<HeaderLine, DataLine(1, 1, 1, <<" ">>),
            DataLine(1, 2, 2, <<" ">>)>>,
          <<MetaLine, HeaderLine, DataLine(1, 1, 1, <<" ">>),
            DataLine(1, 1, 2, <<" ">>)>>,
          <<MetaLine,
            Join(<<S_Date, S_Rain, S_Tmax, S_Tmin, S_VP, S_Radiation, S_FAO56, S_Evap>>,
                 <<" ">>),
            DataLine(1, 1, 1, <<" ">>)>>,
          << <<"I", "n", "v", "a", "l", "i", "d", " ", "u", "s", "e", "r", "n", "a",
               "m", "e", " ", "p", "a", "s", "s", "w", "o", "r", "d">> >> }}

InitPipeline ==
    /\ op = "get_silo_data"
    /\ pc = "call"
    /\ lat \in {LAT_MIN - CoordSlack, LAT_MIN}
    /\ lon \in {LON_MAX, LON_MAX + CoordSlack}
    /\ start_year \in {MIN_YEAR - YearSlack, MIN_YEAR, FirstCurrentYear}
    /\ end_year \in {MIN_YEAR, FirstCurrentYear, FirstCurrentYear + YearSlack}
    /\ current_year = FirstCurrentYear
    /\ format \in {"fao56", "daily"}
    /\ df = NoFrame
    /\ found = <<>>
    /\ ret = NoFrame
    /\ err = NoError
    /\ met_file = <<>>
    /\ response \in Responses
    /\ data_start_idx = 0
    /\ trace = <<>>
    /\ csv_file = <<>>
    /\ given = NoFrame

NextPipeline ==
    \/ GetSiloDataValidateCoordinates
    \/ GetSiloDataValidateRange
    \/ GetSiloDataFetch
    \/ GetSiloDataParse
    \/ GetSiloDataNormalize

SpecPipeline == InitPipeline /\ [][NextPipeline]_vars

(***************************************************************************)
(* C11: in get_silo_data, coordinate and year-range validation complete    *)
(* before any network request: in every run where lat/lon is out of bounds *)
(* or the year range is invalid, the error is raised with no HTTP request  *)
(* issued and no parse or normalize step executed; in every run that does  *)
(* fetch, the order of steps is validate, fetch, parse, normalize.         *)
(***************************************************************************)
StepOrder ==
    <<"validate_coordinates", "validate_range", "request", "parse", "normalize">>

CoordinatesInvalid == lat < -440 \/ lat > -100 \/ lon < 1120 \/ lon > 1540

C11_ValidationBeforeRequest ==
    op = "get_silo_data" =>
        /\ trace = SubSeq(StepOrder, 1, Len(trace))
        /\ (CoordinatesInvalid \/ YearRangeInvalid) =>
              /\ Len(trace) <= 2
              /\ df = NoFrame
              /\ ret = NoFrame
              /\ pc \in {"call", "validate_range", "raised"}
              /\ pc = "raised" => err.class \in {"InvalidCoordinatesError", "ValueError"}
              /\ (CoordinatesInvalid /\ pc # "call") => pc = "raised" /\ Len(trace) = 1
              /\ Len(trace) = 2 => pc = "raised"

\* A start year after the end year, both in range, has been rejected after the
\* two validation steps and nothing else.
C11_Witness ==
    /\ op = "get_silo_data"
    /\ pc = "raised"
    /\ start_year > end_year
    /\ start_year <= current_year
    /\ end_year >= 1889
    /\ trace = <<"validate_coordinates", "validate_range">>
    /\ err.class = "ValueError"

(***************************************************************************)
(* The response texts parse_silo_response is called with: up to MaxLines   *)
(* lines in any order, each one of PayloadLines: the two metadata lines,   *)
(* the header, rows of 1 January, of 2 January and of a thirteenth month,  *)
(* and a comma-separated row.                                              *)
(***************************************************************************)
PayloadLines ==
    <<MetaLine, S_Date \o <<" ">> \o NatChars(EpochYear), HeaderLine,
      DataLine(1, 1, 1, <<" ">>),
      DataLine(1, 2, 2, <<" ">>),
      DataLine(13, 1, 3, <<" ">>),
      DataLine(1, 1, 4, <<",">>)>>

InitParse ==
    /\ op = "parse_silo_response"
    /\ pc = "call"
    /\ lat = 0
    /\ lon = 0
    /\ start_year = 0
    /\ end_year = 0
    /\ current_year = 0
    /\ format = "fao56"
    /\ df = NoFrame
    /\ found = <<>>
    /\ ret = NoFrame
    /\ err = NoError
    /\ met_file = <<>>
    /\ \E n \in 0..MaxLines : \E kinds \in [1..n -> 1..Len(PayloadLines)] :
           response = [outcome |-> "ok", text |-> [i \in 1..n |-> PayloadLines[kinds[i]]]]
    /\ data_start_idx = 0
    /\ trace = <<>>
    /\ csv_file = <<>>
    /\ given = NoFrame

NextParse == ParseSiloResponse

SpecParse == InitParse /\ [][NextParse]_vars

(***************************************************************************)
(* Claims about parse_silo_response.                                       *)
(***************************************************************************)
\* parse_silo_response has ended, by a return or by an exception.
Parsed == op = "parse_silo_response" /\ pc # "call"

\* It ended for lack of a data boundary.
NoBoundaryReported ==
    err.class = "SILOAPIError" /\ err.what = "Could not find data start in SILO response"

\* The 0-based position, in the lines of the text, of the line the table was read
\* from as its header; meaningful when a boundary was found.
HeaderPosition ==
    Len(SplitLines(response.text))
      - Len(SliceFrom(SplitLines(response.text), data_start_idx))

(***************************************************************************)
(* C12: parse_silo_response takes as header row the first line, scanning   *)
(* from the very first line of the payload, that contains a date token     *)
(* together with one of the header synonyms, and fails for lack of a data  *)
(* boundary only when neither the named-header scan nor the data-shape     *)
(* fallback locates a boundary; a payload whose header row is its first    *)
(* line is parsed, not rejected.                                           *)
(***************************************************************************)
C12_FirstNamedHeaderTaken ==
    Parsed =>
        /\ FirstNamedHeader(SplitLines(response.text)) # -1 =>
              /\ ~NoBoundaryReported
              /\ HeaderPosition = FirstNamedHeader(SplitLines(response.text))
        /\ NoBoundaryReported =>
              /\ FirstNamedHeader(SplitLines(response.text)) = -1
              /\ FirstDataShaped(SplitLines(response.text)) = -1

\* What the code does: a named header is taken as the header row when it is not
\* the first line; one on the first line counts as not found, and the text is
\* rejected unless a data-shaped line from the third line on gives a boundary.
C12_NamedHeaderAfterFirstLine ==
    Parsed =>
        /\ FirstNamedHeader(SplitLines(response.text)) >= 1 =>
              /\ ~NoBoundaryReported
              /\ HeaderPosition = FirstNamedHeader(SplitLines(response.text))
        /\ FirstNamedHeader(SplitLines(response.text)) = 0 =>
              \/ NoBoundaryReported
              \/ /\ FirstDataShaped(SplitLines(response.text)) >= 2
                 /\ HeaderPosition = FirstDataShaped(SplitLines(response.text)) - 1

(***************************************************************************)
(* C13: when the named-header scan finds no line and the first data-shaped *)
(* line is at line index i, parse_silo_response treats line i-1 as the     *)
(* header and builds the table from lines i-1 onward, for every i          *)
(* including i = 0 and i = 1; it never selects a line after the data line  *)
(* as the header and never reports 'no boundary' when such a data line     *)
(* exists.                                                                 *)
(***************************************************************************)
\* The named-header scan finds no line and there is a data-shaped line.
FallbackCase ==
    /\ Parsed
    /\ FirstNamedHeader(SplitLines(response.text)) = -1
    /\ FirstDataShaped(SplitLines(response.text)) # -1

C13_FallbackHeaderBeforeData ==
    FallbackCase =>
        /\ ~NoBoundaryReported
        /\ data_start_idx = FirstDataShaped(SplitLines(response.text)) - 1
        /\ HeaderPosition <= FirstDataShaped(SplitLines(response.text))

\* What the code does: from the third line on the line before the data line is
\* the header; a data line on the second line is reported as no boundary; for one
\* on the first line the table is read from the last line of the text alone.
C13_FallbackFromThirdLine ==
    FallbackCase =>
        CASE FirstDataShaped(SplitLines(response.text)) >= 2 ->
               /\ ~NoBoundaryReported
               /\ HeaderPosition = FirstDataShaped(SplitLines(response.text)) - 1
          [] FirstDataShaped(SplitLines(response.text)) = 1 -> NoBoundaryReported
          [] OTHER ->
               /\ ~NoBoundaryReported
               /\ data_start_idx = -1
               /\ HeaderPosition = Len(SplitLines(response.text)) - 1

(***************************************************************************)
(* C14: every table returned by parse_silo_response has a date index that  *)
(* is strictly increasing with no duplicate dates and no null dates,       *)
(* whatever the order and repetition of date tokens in the payload         *)
(* (unsorted rows, the same date on two rows, unparseable date tokens).    *)
(***************************************************************************)
C14_StrictlyIncreasingIndex ==
    (op = "parse_silo_response" /\ pc = "returned") =>
        /\ \A i \in 1..Len(ret.index) : ret.index[i] \in Int
        /\ \A i \in 1..(Len(ret.index) - 1) : ret.index[i] < ret.index[i + 1]

\* What the code does: rows without a date are dropped and the rest sorted, but a
\* date written on two rows stays on two rows of the table.
C14_SortedIndexKeepsRepeats ==
    (op = "parse_silo_response" /\ pc = "returned") =>
        /\ \A i \in 1..Len(ret.index) : ret.index[i] \in Int
        /\ IsAscending(ret.index)
        /\ \A d \in {DayNumber(EpochYear, 1, 1), DayNumber(EpochYear, 1, 2)} :
              Cardinality({i \in 1..Len(ret.index) : ret.index[i] = d})
                = Cardinality({i \in (HeaderPosition + 2)..Len(response.text) :
                                  /\ Fields(response.text[i]) # <<>>
                                  /\ ToDatetime(<<Fields(response.text[i])[1]>>) = <<d>>})

(***************************************************************************)
(* Objects.  A method receives a reference to the caller's DataFrame, not  *)
(* a value.  During a call, heap is the sequence of the DataFrames alive   *)
(* and a reference is a position in it; the caller's series is at         *)
(* position 1.  A call returns the heap it leaves and what it computed.    *)
(***************************************************************************)
year_month == <<"y", "e", "a", "r", "_", "m", "o", "n", "t", "h">>
daily_mean == <<"d", "a", "i", "l", "y", "_", "m", "e", "a", "n">>

\* df.copy(): a new object with the contents of the one referred to.
Copy(heap, ref) == [heap |-> Append(heap, heap[ref]), ref |-> Len(heap) + 1]

\* df[name] = col on one object: the column is replaced, or added as the last one.
SetColumn(frame, name, col) ==
    IF ColumnIndex(frame, name) # 0
    THEN [frame EXCEPT !.data[ColumnIndex(frame, name)] = col]
    ELSE [frame EXCEPT !.columns = Append(@, name), !.data = Append(@, col)]

\* df['day'] = df.index.dayofyear on one object; the days are whole numbers, not
\* tenths.
SetDay(frame) ==
    SetColumn(frame, day, [i \in 1..Len(frame.index) |-> <<DayOfYear(frame.index[i])>>])

\* calculate_day_of_year without line 439: 'day' is assigned on the argument.
CalculateDayOfYearInPlace(heap, ref) ==
    [heap |-> [heap EXCEPT ![ref] = SetDay(@)], ref |-> ref]

\* calculate_day_of_year (lines 439-441): 'day' is assigned on a copy, which is
\* returned.
CalculateDayOfYear(heap, ref) ==
    [heap |-> [Copy(heap, ref).heap EXCEPT ![Copy(heap, ref).ref] = SetDay(@)],
     ref |-> Copy(heap, ref).ref]

\* shift_evaporation past its check (lines 457-470): evap_pan is assigned on a
\* copy, which is returned.
ShiftEvaporationCopy(heap, ref) ==
    [heap |-> [Copy(heap, ref).heap EXCEPT
                  ![Copy(heap, ref).ref] = ShiftEvaporationFrame(@)],
     ref |-> Copy(heap, ref).ref]

(***************************************************************************)
(* calculate_tav and calculate_amp.  A mean is a cell: NaN, or the ratio   *)
(* <<[num, den]>> of a sum of (max_temp + min_temp) in tenths to a count   *)
(* of days, that is num / den twentieths of a degree.                      *)
(***************************************************************************)
RECURSIVE SeqSum(_)
SeqSum(s) == IF s = <<>> THEN 0 ELSE Head(s) + SeqSum(Tail(s))

\* Lines 392-393 and 412-413.
TavError(frame) ==
    IF ColumnIndex(frame, max_temp) = 0 \/ ColumnIndex(frame, min_temp) = 0
    THEN [class |-> "ValueError",
          what |-> "DataFrame must contain max_temp and min_temp columns"]
    ELSE NoError

\* (df['max_temp'] + df['min_temp']) / 2.0, in twentieths: NaN where either is.
DailyMean(frame) ==
    [i \in 1..Len(frame.index) |->
        IF Column(frame, max_temp)[i] = NaN \/ Column(frame, min_temp)[i] = NaN
        THEN NaN
        ELSE <<Column(frame, max_temp)[i][1] + Column(frame, min_temp)[i][1]>>]

\* Series.mean(): the cells that are NaN are skipped; NaN when none is left.
Mean(cells) ==
    LET values == SelectSeq(cells, LAMBDA x : x # NaN)
    IN  IF values = <<>> THEN NaN
        ELSE <<[num |-> SeqSum([i \in 1..Len(values) |-> values[i][1]]),
                den |-> Len(values)]>>

\* calculate_tav (lines 395-398); it assigns nothing on df.
CalculateTav(frame) == Mean(DailyMean(frame))

\* Lines 420-425 on the copy that has year_month and daily_mean: the mean of each
\* month, then the largest minus the smallest; NaN when no month has a mean.
Amplitude(frame) ==
    LET RatioLess(a, b) == a.num * b.den < b.num * a.den
        months == {Column(frame, year_month)[i] : i \in 1..Len(frame.index)}
        MonthMean(ym) ==
            Mean([i \in 1..Len(frame.index) |->
                     IF Column(frame, year_month)[i] = ym
                     THEN Column(frame, daily_mean)[i] ELSE NaN])
        means == {MonthMean(ym)[1] : ym \in {m \in months : MonthMean(m) # NaN}}
        monthly_max == CHOOSE a \in means : \A b \in means : ~RatioLess(a, b)
        monthly_min == CHOOSE a \in means : \A b \in means : ~RatioLess(b, a)
    IN  IF means = {} THEN NaN
        ELSE <<[num |-> monthly_max.num * monthly_min.den
                          - monthly_min.num * monthly_max.den,
                den |-> monthly_max.den * monthly_min.den]>>

\* calculate_amp past its check (lines 416-427): the two columns are assigned on
\* df_copy.
CalculateAmp(heap, ref) ==
    LET copied == Copy(heap, ref)
        with_month ==
            SetColumn(copied.heap[copied.ref], year_month,
                      [i \in 1..Len(heap[ref].index) |->
                          <<YearOf(heap[ref].index[i]), MonthOf(heap[ref].index[i])>>])
        with_mean == SetColumn(with_month, daily_mean, DailyMean(with_month))
    IN  [heap |-> [copied.heap EXCEPT ![copied.ref] = with_mean],
         value |-> Amplitude(with_mean)]

(***************************************************************************)
(* export_to_met and export_to_csv as calls on a reference.                *)
(***************************************************************************)
\* Lines 558-599 on the frame export_to_met holds at line 518, which has 'day'
\* and the shifted evap_pan.
MetFileRows(frame) ==
    [i \in 1..Len(frame.index) |->
        MetLine(YearOf(frame.index[i]),
                Column(frame, day)[i][1],
                FormatValue(Column(frame, radiation)[i]),
                FormatValue(Column(frame, max_temp)[i]),
                FormatValue(Column(frame, min_temp)[i]),
                FormatValue(Column(frame, daily_rain)[i]),
                FormatValue(Column(frame, evap_pan)[i]),
                FormatValue(Column(frame, vp)[i]),
                FormatCode(Column(frame, code)[i]))]

\* export_to_met (lines 510-601): the heap it leaves, the exception raised and
\* the rows written.
ExportToMetCall(heap, ref) ==
    IF TavError(heap[ref]) # NoError
    THEN [heap |-> heap, err |-> TavError(heap[ref]), rows |-> <<>>]
    ELSE LET with_day == CalculateDayOfYear(CalculateAmp(heap, ref).heap, ref)
         IN  IF ShiftError(with_day.heap[with_day.ref]) # NoError
             THEN [heap |-> with_day.heap,
                   err |-> ShiftError(with_day.heap[with_day.ref]),
                   rows |-> <<>>]
             ELSE LET shifted == ShiftEvaporationCopy(with_day.heap, with_day.ref)
                  IN  [heap |-> shifted.heap,
                       err |-> NoError,
                       rows |-> MetFileRows(shifted.heap[shifted.ref])]

\* to_csv on a number: nothing for NaN; an int64 column prints whole numbers, a
\* float64 column the shortest decimal.
CsvNumber(cell, isInt) ==
    IF cell = NaN THEN ""
    ELSE (IF cell[1] < 0 THEN "-" ELSE "")
           \o NatStr(Abs(cell[1]) \div 10)
           \o (IF isInt THEN "" ELSE "." \o Digit(Abs(cell[1]) % 10))

\* Lines 626-646 on the frame export_to_csv holds at line 623: the header, then
\* the fields of each day.  evap_pan is float64 after shift(-1); a null code is
\* an empty field.
CsvLines(frame) ==
    << <<"year", "day", "radiation", "max_temp", "min_temp", "daily_rain", "evap_pan",
         "vp", "et_short_crop", "code">> >> \o
    [i \in 1..Len(frame.index) |->
        <<NatStr(YearOf(frame.index[i])),
          NatStr(Column(frame, day)[i][1]),
          CsvNumber(Column(frame, radiation)[i], IsIntColumn(Column(frame, radiation))),
          CsvNumber(Column(frame, max_temp)[i], IsIntColumn(Column(frame, max_temp))),
          CsvNumber(Column(frame, min_temp)[i], IsIntColumn(Column(frame, min_temp))),
          CsvNumber(Column(frame, daily_rain)[i], IsIntColumn(Column(frame, daily_rain))),
          CsvNumber(Column(frame, evap_pan)[i], FALSE),
          CsvNumber(Column(frame, vp)[i], IsIntColumn(Column(frame, vp))),
          CsvNumber(Column(frame, et_short_crop)[i],
                    IsIntColumn(Column(frame, et_short_crop))),
          IF Column(frame, code)[i] = NaN THEN "" ELSE Column(frame, code)[i][1]>>]

\* export_to_csv (lines 619-648): the heap it leaves, the exception raised and the
\* lines written.
ExportToCsvCall(heap, ref) ==
    LET with_day == CalculateDayOfYear(Copy(heap, ref).heap, Copy(heap, ref).ref)
    IN  IF ShiftError(with_day.heap[with_day.ref]) # NoError
        THEN [heap |-> with_day.heap,
              err |-> ShiftError(with_day.heap[with_day.ref]),
              lines |-> <<>>]
        ELSE LET shifted == ShiftEvaporationCopy(with_day.heap, with_day.ref)
             IN  [heap |-> shifted.heap,
                  err |-> NoError,
                  lines |-> CsvLines(shifted.heap[shifted.ref])]

(***************************************************************************)
(* main(): calls on the one series it holds (silo_met_file_creation.py,    *)
(* lines 40-91), here up to MaxCalls of them in any order.  An exception   *)
(* ends the run.                                                           *)
(***************************************************************************)
\* tav = api.calculate_tav(df).
MainCalculateTav ==
    /\ op = "main"
    /\ pc = "ready"
    /\ Len(trace) < MaxCalls
    /\ err' = TavError(df)
    /\ ret' = IF err' = NoError THEN CalculateTav(df) ELSE ret
    /\ pc' = IF err' = NoError THEN "ready" ELSE "raised"
    /\ trace' = Append(trace, "calculate_tav")
    /\ UNCHANGED <<op, lat, lon, start_year, end_year, current_year, format, df, found,
                   met_file, response, data_start_idx, csv_file, given>>

\* amp = api.calculate_amp(df).
MainCalculateAmp ==
    /\ op = "main"
    /\ pc = "ready"
    /\ Len(trace) < MaxCalls
    /\ err' = TavError(df)
    /\ IF err' = NoError
       THEN \E r \in {CalculateAmp(<<df>>, 1)} :
               /\ df' = r.heap[1]
               /\ ret' = r.value
       ELSE UNCHANGED <<df, ret>>
    /\ pc' = IF err' = NoError THEN "ready" ELSE "raised"
    /\ trace' = Append(trace, "calculate_amp")
    /\ UNCHANGED <<op, lat, lon, start_year, end_year, current_year, format, found,
                   met_file, response, data_start_idx, csv_file, given>>

\* met_file = api.export_to_met(df=df, ...).
MainExportToMet ==
    /\ op = "main"
    /\ pc = "ready"
    /\ Len(trace) < MaxCalls
    /\ \E r \in {ExportToMetCall(<<df>>, 1)} :
        /\ df' = r.heap[1]
        /\ err' = r.err
        /\ met_file' = IF r.err = NoError THEN r.rows ELSE met_file
        /\ pc' = IF r.err = NoError THEN "ready" ELSE "raised"
    /\ trace' = Append(trace, "export_to_met")
    /\ UNCHANGED <<op, lat, lon, start_year, end_year, current_year, format, found,
                   ret, response, data_start_idx, csv_file, given>>

\* csv_file = api.export_to_csv(df=df, ...).
MainExportToCsv ==
    /\ op = "main"
    /\ pc = "ready"
    /\ Len(trace) < MaxCalls
    /\ \E r \in {ExportToCsvCall(<<df>>, 1)} :
        /\ df' = r.heap[1]
        /\ err' = r.err
        /\ csv_file' = IF r.err = NoError THEN r.lines ELSE csv_file
        /\ pc' = IF r.err = NoError THEN "ready" ELSE "raised"
    /\ trace' = Append(trace, "export_to_csv")
    /\ UNCHANGED <<op, lat, lon, start_year, end_year, current_year, format, found,
                   ret, met_file, response, data_start_idx, given>>

\* The series main() holds: those of InitSeries that run over the end of a year.
InitMain ==
    /\ op = "main"
    /\ pc = "ready"
    /\ lat = 0
    /\ lon = 0
    /\ start_year = 0
    /\ end_year = 0
    /\ current_year = 0
    /\ format = "fao56"
    /\ \E n \in 0..MaxLen : \E columns \in SeriesLayouts :
           \E start \in {s \in StartDays : YearOf(s + MaxLen) # YearOf(s)} :
               \E kinds \in [1..n -> DayKinds] :
                   df = SeriesFrame(columns, start, kinds)
    /\ found = <<>>
    /\ ret = NaN
    /\ err = NoError
    /\ met_file = <<>>
    /\ response = NoResponse
    /\ data_start_idx = 0
    /\ trace = <<>>
    /\ csv_file = <<>>
    /\ given = df

NextMain ==
    \/ MainCalculateTav
    \/ MainCalculateAmp
    \/ MainExportToMet
    \/ MainExportToCsv

SpecMain == InitMain /\ [][NextMain]_vars

(***************************************************************************)
(* C15: the emitters and statistics never mutate the normalized series     *)
(* passed to them: after any sequence of calls to calculate_tav,           *)
(* calculate_amp, export_to_met and export_to_csv on the same series, the  *)
(* caller's series has the same columns and values as before (no 'day'     *)
(* column added, evap_pan not shifted), so each emitted file reflects      *)
(* exactly one application of the evaporation shift regardless of how many *)
(* emitters ran before it and in which order.                              *)
(***************************************************************************)
\* evap_pan of the series as given, shifted once.
ShiftedOnce == ShiftedEvap(Column(given, evap_pan))

C15_SeriesNotMutated ==
    op = "main" =>
        /\ df = given
        /\ ColumnIndex(df, day) = 0
        /\ met_file # <<>> =>
              /\ Len(met_file) = Len(given.index)
              /\ met_file = MetRows(given)
        /\ csv_file # <<>> =>
              /\ Len(csv_file) = Len(given.index) + 1
              /\ \A i \in 1..Len(given.index) :
                    csv_file[i + 1][7] = CsvNumber(ShiftedOnce[i], FALSE)

\* Both files have been written, the .met file first, from a series of at least
\* two days whose evap_pan the shift changes.
C15_Witness ==
    /\ op = "main"
    /\ pc = "ready"
    /\ Len(trace) >= 2
    /\ trace[1] = "export_to_met"
    /\ trace[2] = "export_to_csv"
    /\ Len(given.index) >= 2
    /\ ShiftedOnce # Column(given, evap_pan)
    /\ csv_file[2][7] = CsvNumber(Column(given, evap_pan)[2], FALSE)

====
